---------------------------- MODULE Spec2Model ----------------------------
(***************************************************************************)
(* archiveis-rs: the capture protocol client (src/src/lib.rs) and the      *)
(* batch / retry layer of the command line tool (src/src/archiveis.rs).    *)
(*                                                                         *)
(* One run of the model is one of three calls:                             *)
(*   entry = "capture_all"  ArchiveClient::capture_all(urls, token)        *)
(*   entry = "main"         get_unique_token, capture_links, fold_captures *)
(*                          as chained in main() of archiveis.rs           *)
(*   entry = "fold"         fold_captures(client, archives, retries, token)*)
(*                          called on an arbitrary result list             *)
(* The remote service is the environment: every response it can give is a  *)
(* nondeterministic choice of the action that receives it.                 *)
(*                                                                         *)
(* SpecText runs get_unique_token and capture_with_token on the text of a  *)
(* response: what they extract from a landing page, a Refresh header and   *)
(* the body of a POST response.                                            *)
(***************************************************************************)
EXTENDS Integers, Sequences, FiniteSets

\* ------------------------------------------------------------------ bounds
\* urls per batch and entries per result list; retries a caller may ask for;
\* urls of the one large batch of SpecWide; symbols of a landing page, of
\* the body of a POST response and of a Refresh header value.
MaxUrls == 2
MaxRetries == 2
WideUrls == 11
MaxPage == 5
MaxBody == 4
MaxHdr == 4

URLs == {"u1", "u2"}
Tokens == {"tA", "tB"}
None == "none"

VARIABLES
    entry,      \* which call this run is
    service,    \* what the remote service can answer: "any" | "healthy"
    pc,         \* "start" | "token" | "join" | "done" | "failed"
    phase,      \* which join_all is running: "first" | "retry"
    urls,       \* the urls / links argument
    token,      \* the submit token of the batch (None until known)
    futs,       \* the futures handed to join_all, in input order
    archived,   \* fold_captures: the successes kept across a round
    archives,   \* the result list (argument of fold_captures, final output)
    retries,    \* fold_captures: the retries argument of the current call
    err,        \* the error the whole call failed with
    input,      \* the list fold_captures was first called with
    budget,     \* the retries the caller supplied
    rounds,     \* retry rounds started so far
    subs,       \* per url: submissions made by retry rounds
    call,       \* SpecText: the response one call has to interpret
    ret         \* SpecText: what the call returned (NoReturn before)

vars == <<entry, service, pc, phase, urls, token, futs, archived, archives,
          retries, err, input, budget, rounds, subs, call, ret>>

\* ------------------------------------------------------------ data model
\* Result<Archived, Error>: Archived, or one of the Error variants.
Archived(u, t) == [kind |-> "Archived", url |-> u, tok |-> t]
Hyper == [kind |-> "Hyper", url |-> None, tok |-> None]
MissingToken == [kind |-> "MissingToken", url |-> None, tok |-> None]
MissingUrl(u) == [kind |-> "MissingUrl", url |-> u, tok |-> None]
ServerError(u) == [kind |-> "ServerError", url |-> u, tok |-> None]
NoResult == [kind |-> None, url |-> None, tok |-> None]

Results ==
    {Archived(u, t) : u \in URLs, t \in Tokens}
        \cup {Hyper, MissingToken}
        \cup {MissingUrl(u) : u \in URLs}
        \cup {ServerError(u) : u \in URLs}

is_ok(r) == r.kind = "Archived"
is_err(r) == ~is_ok(r)

SeqsUpTo(S, n) == UNION {[1..k -> S] : k \in 0..n}

all_ok(rs) == \A i \in DOMAIN rs : is_ok(rs[i])

\* ------------------------------------------------------------ the service
\* A response to the POST: a transport failure, or headers and a body.
TransportFailure == [transport |-> FALSE, refresh |-> FALSE, body |-> None]
Response(r, b) == [transport |-> TRUE, refresh |-> r, body |-> b]

\* body classes: starts with <h1>Server Error</h1>; holds an og:url meta
\* tag; anything else (empty, no meta tag, not UTF-8).
\* "aborted": the body stream fails while it is read (concat2).
Bodies == {"server_error", "og_url", "other", "aborted"}

PostResponses(svc) ==
    IF svc = "healthy"
    THEN {Response(TRUE, "other")}
    ELSE {TransportFailure} \cup {Response(r, b) : r \in BOOLEAN, b \in Bodies}

\* A response to the GET of the landing page: the token get_unique_token
\* extracts, no token in the body, or a transport failure.
TokenResponses == Tokens \cup {"MissingToken", "Hyper"}

\* ------------------------------------------------------ single captures
\* The future capture_with_token(url, submit_token) returns, not yet polled.
capture_with_token(u, t) ==
    [url |-> u, st |-> "new", again |-> FALSE, tok |-> t, res |-> NoResult]

\* A resolved future holds its item and nothing else of the call.
Completed(f, r) ==
    [url |-> f.url, st |-> "done", again |-> FALSE, tok |-> None, res |-> r]

pending(f) == f.st \in {"post", "get"}

\* on_post_response had the body read before the Refresh header.
on_post_response_body_first(f, resp) ==
    IF ~resp.transport THEN Completed(f, Hyper)
    ELSE IF resp.body = "aborted" THEN Completed(f, Hyper)
    ELSE IF resp.body = "server_error"
        THEN [f EXCEPT !.st = "get", !.again = TRUE, !.tok = None]
    ELSE IF resp.refresh THEN Completed(f, Archived(f.url, f.tok))
    ELSE IF resp.body = "og_url" THEN Completed(f, Archived(f.url, f.tok))
    ELSE Completed(f, MissingUrl(f.url))

\* capture_with_token on the response of its POST (lib.rs 201-264). A body
\* that starts with the server error marker hands over to self.capture,
\* which starts with the GET of get_unique_token.
on_post_response(f, resp) ==
    IF ~resp.transport THEN Completed(f, Hyper)
    ELSE IF resp.refresh THEN Completed(f, Archived(f.url, f.tok))
    ELSE IF resp.body = "aborted" THEN Completed(f, Hyper)
    ELSE IF resp.body = "server_error"
        THEN [f EXCEPT !.st = "get", !.again = TRUE, !.tok = None]
    ELSE IF resp.body = "og_url" THEN Completed(f, Archived(f.url, f.tok))
    ELSE Completed(f, MissingUrl(f.url))

\* capture (lib.rs 158-164) on the response of its GET: with a token it
\* calls capture_with_token(url, id), which sends the next POST.
on_token_response(f, tr) ==
    IF tr \in Tokens THEN [f EXCEPT !.st = "post", !.tok = tr]
    ELSE IF tr = "MissingToken" THEN Completed(f, MissingToken)
    ELSE Completed(f, Hyper)

\* --------------------------------------------------------------- batches
\* .then(Ok): whatever the capture resolved to becomes the Ok item of the
\* future handed to join_all. (then_ok_short: the capture's own Result is
\* handed on, so that an Err reaches join_all.)
then_ok_short(r) == [outer |-> IF is_ok(r) THEN "Ok" ELSE "Err", item |-> r]
then_ok(r) == [outer |-> "Ok", item |-> r]

\* join_all polls every future it was given: all of them are started.
\* (admit_window: only the first ten are.)
admit_window(n) == {i \in 1..n : i <= 10}
admit(n) == 1..n

\* The futures pushed for a list of urls, after the first poll of join_all.
dispatch(us, t) ==
    [i \in DOMAIN us |->
        IF i \in admit(Len(us))
        THEN [capture_with_token(us[i], t) EXCEPT !.st = "post"]
        ELSE capture_with_token(us[i], t)]

\* collect had the successes come before the failures.
collect_ok_first(fs) ==
    SelectSeq([i \in DOMAIN fs |-> fs[i].res], is_ok)
        \o SelectSeq([i \in DOMAIN fs |-> fs[i].res], is_err)

\* What join_all resolves to: the items in the order of the futures.
\* (collect_ok_only: the failures are left out.)
collect_ok_only(fs) == SelectSeq([i \in DOMAIN fs |-> fs[i].res], is_ok)
collect(fs) == [i \in DOMAIN fs |-> fs[i].res]

all_done(fs) == \A i \in DOMAIN fs : fs[i].st = "done"

InFlight == Cardinality({i \in DOMAIN futs : pending(futs[i])})

\* join_all on the new state f2 of its i-th future: an Ok item is stored; an
\* Err fails the join at once and drops the futures still running.
Polled(i, f2) ==
    IF f2.st = "done" /\ then_ok(f2.res).outer = "Err"
    THEN /\ futs' = [j \in DOMAIN futs |->
                        IF j = i THEN f2
                        ELSE IF futs[j].st = "done" THEN futs[j]
                        ELSE [futs[j] EXCEPT !.st = "dropped"]]
         /\ pc' = "failed"
         /\ err' = f2.res
    ELSE /\ futs' = [futs EXCEPT ![i] = f2]
         /\ UNCHANGED <<pc, err>>

\* The service answers the POST of the i-th capture.
PostResponse(i) ==
    /\ pc = "join"
    /\ futs[i].st = "post"
    /\ \E resp \in PostResponses(service) :
            Polled(i, on_post_response(futs[i], resp))
    /\ UNCHANGED <<call, ret, entry, service, phase, urls, token, archived, archives,
                   retries, input, budget, rounds, subs>>

\* The service answers the GET of a capture started by the i-th future.
TokenResponse(i) ==
    /\ pc = "join"
    /\ futs[i].st = "get"
    /\ \E tr \in TokenResponses : Polled(i, on_token_response(futs[i], tr))
    /\ UNCHANGED <<call, ret, entry, service, phase, urls, token, archived, archives,
                   retries, input, budget, rounds, subs>>

\* --------------------------------------------------------- fold_captures
retryable(r) == r.kind \in {"ServerError", "MissingUrl"}

\* retry_urls had the url of every entry submitted again, successes too.
retry_urls_all(archs) ==
    LET rs == SelectSeq(archs, LAMBDA r : retryable(r) \/ is_ok(r))
    IN  [i \in DOMAIN rs |-> rs[i].url]

\* The urls fold_captures submits again: those of the ServerError and
\* MissingUrl failures, in order (archiveis.rs 270-277).
retry_urls(archs) ==
    LET rs == SelectSeq(archs, retryable)
    IN  [i \in DOMAIN rs |-> rs[i].url]

\* archiveis.rs 264: nothing left to do. (The two variants drop one half of
\* the test each.)
fold_finished_no_budget_check(archs, r) == all_ok(archs)
fold_finished_budget_only(archs, r) == r = 0
fold_finished(archs, r) == all_ok(archs) \/ r = 0

\* archiveis.rs 282: the budget handed to the next call. (next_budget_per_url:
\* one retry is spent for every url submitted in the round.)
next_budget_per_url(r) == IF r > Len(futs) THEN r - Len(futs) ELSE 0
next_budget(r) == r - 1

\* archiveis.rs 279-280: the failures go to capture_links with the token of
\* the batch. (resubmit_capture: each goes through capture, which starts
\* with the GET of a token of its own.)
resubmit_capture(us, t) ==
    [i \in DOMAIN us |-> [capture_with_token(us[i], None) EXCEPT !.st = "get"]]
resubmit(us, t) == dispatch(us, t)

occurrences(us, u) == Cardinality({i \in DOMAIN us : us[i] = u})

\* fold_captures(client, archs, r, token): returns archs, or keeps the
\* successes and starts capture_links on the urls of the failures.
fold_captures(archs, r) ==
    /\ archives' = archs
    /\ retries' = r
    /\ IF fold_finished(archs, r)
       THEN /\ pc' = "done"
            /\ UNCHANGED <<phase, futs, archived, rounds, subs>>
       ELSE /\ pc' = "join"
            /\ phase' = "retry"
            /\ archived' = SelectSeq(archs, is_ok)
            /\ futs' = resubmit(retry_urls(archs), token)
            /\ rounds' = rounds + 1
            /\ subs' = [u \in URLs |->
                            subs[u] + occurrences(retry_urls(archs), u)]

\* ------------------------------------------------------------- the calls
\* capture_all(urls, Some(token)): the requests are dispatched at once.
\* capture_all(urls, None) and main(): get_unique_token sends its GET.
Call ==
    /\ pc = "start"
    /\ entry \in {"capture_all", "main"}
    /\ IF token # None
       THEN /\ pc' = "join"
            /\ futs' = dispatch(urls, token)
       ELSE /\ pc' = "token"
            /\ UNCHANGED futs
    /\ UNCHANGED <<call, ret, entry, service, phase, urls, token, archived, archives,
                   retries, err, input, budget, rounds, subs>>

\* BatchToken had the batch dispatched whatever get_unique_token resolved to.
BatchTokenAnyway ==
    /\ pc = "token"
    /\ \E tr \in TokenResponses :
        /\ token' = (IF tr \in Tokens THEN tr ELSE None)
        /\ pc' = "join"
        /\ futs' = dispatch(urls, token')
    /\ UNCHANGED <<call, ret, entry, service, phase, urls, archived, archives,
                   retries, err, input, budget, rounds, subs>>

\* get_unique_token resolves: with the token the batch is dispatched, an
\* error is the error of the whole call.
BatchToken ==
    /\ pc = "token"
    /\ \E tr \in TokenResponses :
        IF tr \in Tokens
        THEN /\ token' = tr
             /\ pc' = "join"
             /\ futs' = dispatch(urls, tr)
             /\ UNCHANGED err
        ELSE /\ pc' = "failed"
             /\ err' = (IF tr = "MissingToken" THEN MissingToken ELSE Hyper)
             /\ UNCHANGED <<token, futs>>
    /\ UNCHANGED <<call, ret, entry, service, phase, urls, archived, archives,
                   retries, input, budget, rounds, subs>>

\* capture_all: join_all resolves, the Vec of results is the item.
CaptureAllDone ==
    /\ pc = "join"
    /\ entry = "capture_all"
    /\ all_done(futs)
    /\ pc' = "done"
    /\ archives' = collect(futs)
    /\ UNCHANGED <<call, ret, entry, service, phase, urls, token, futs, archived,
                   retries, err, input, budget, rounds, subs>>

\* main: capture_links resolves and its results go to fold_captures.
CaptureLinksDone ==
    /\ pc = "join"
    /\ entry = "main"
    /\ phase = "first"
    /\ all_done(futs)
    /\ input' = collect(futs)
    /\ fold_captures(collect(futs), retries)
    /\ UNCHANGED <<call, ret, entry, service, urls, token, err, budget>>

\* fold_captures called on a result list of the caller's.
FoldCall ==
    /\ pc = "start"
    /\ entry = "fold"
    /\ fold_captures(archives, retries)
    /\ UNCHANGED <<call, ret, entry, service, urls, token, err, input, budget>>

\* A retry round resolves: the new results are appended to the kept
\* successes and fold_captures is called with one retry less.
RetryRoundDone ==
    /\ pc = "join"
    /\ phase = "retry"
    /\ all_done(futs)
    /\ fold_captures(archived \o collect(futs), next_budget(retries))
    /\ UNCHANGED <<call, ret, entry, service, urls, token, err, input, budget>>

\* ----------------------------------------------------- response texts
\* A text is a sequence of symbols. Each pattern the code searches for is
\* one symbol, and no run of other symbols spells a pattern:
\*   landing page   "M" name="submitid    "V" value="    "Q" the quote "
\*   POST body      "S" <h1>Server Error</h1>    "G" <meta property="og:url"
\*                  "C" content="    "Q" the quote "
\*   Refresh value  "=" the equals sign
\* "x" and "a" are any other character.
PageSymbols == {"M", "V", "Q", "x"}
BodySymbols == {"S", "G", "C", "Q", "x"}
HdrSymbols == {"=", "a"}

\* A pattern that holds a double quote is cut at it when the text is split
\* at '"': what is left of it is the text before its quote.
Quoted == {"Q", "M", "V", "G", "C"}
BeforeQuote(c) ==
    CASE c = "M" -> <<"name=">>
      [] c = "V" -> <<"value=">>
      [] c = "G" -> <<"<meta property=">>
      [] c = "C" -> <<"content=">>
      [] OTHER -> <<>>

\* Option<&str>
Some(v) == [some |-> TRUE, val |-> v]
Nothing == [some |-> FALSE, val |-> <<>>]

\* str::find / str::rfind of a pattern: its first / last place, 0 if none.
find(s, c) ==
    IF \E i \in DOMAIN s : s[i] = c
    THEN CHOOSE i \in DOMAIN s : s[i] = c /\ \A j \in 1..(i - 1) : s[j] # c
    ELSE 0
rfind(s, c) ==
    IF \E i \in DOMAIN s : s[i] = c
    THEN CHOOSE i \in DOMAIN s : s[i] = c /\ \A j \in (i + 1)..Len(s) : s[j] # c
    ELSE 0

\* s.splitn(2, c).nth(1): what follows the first c, if there is one.
splitn2_nth1(s, c) ==
    IF find(s, c) = 0 THEN Nothing ELSE Some(SubSeq(s, find(s, c) + 1, Len(s)))

\* s.splitn(2, c).next(): what precedes the first c, all of s without one.
splitn2_next(s, c) ==
    IF find(s, c) = 0 THEN s ELSE SubSeq(s, 1, find(s, c) - 1)

\* s.splitn(2, c).last(): what follows the first c, all of s without one.
splitn2_last(s, c) ==
    IF find(s, c) = 0 THEN s ELSE SubSeq(s, find(s, c) + 1, Len(s))

\* s.rsplitn(2, c).next(): what follows the last c, all of s without one.
rsplitn2_next(s, c) ==
    IF rfind(s, c) = 0 THEN s ELSE SubSeq(s, rfind(s, c) + 1, Len(s))

\* s.splitn(2, '"').next(): what precedes the first double quote of s.
before_quote(s) ==
    IF \A i \in DOMAIN s : s[i] \notin Quoted THEN s
    ELSE LET q == CHOOSE i \in DOMAIN s :
                      /\ s[i] \in Quoted
                      /\ \A j \in 1..(i - 1) : s[j] \notin Quoted
         IN  SubSeq(s, 1, q - 1) \o BeforeQuote(s[q])

\* s.split(c).nth(1): the piece between the first c and the second.
split_nth1(s, c) ==
    IF find(s, c) = 0 THEN Nothing
    ELSE Some(splitn2_next(splitn2_nth1(s, c).val, c))

\* What a call returns in SpecText.
Return(k, target, archive, stamp, tok) ==
    [kind |-> k, target_url |-> target, archived_url |-> archive,
     time_stamp |-> stamp, submit_token |-> tok]
NoReturn == Return(None, None, <<>>, None, <<>>)
Failure(k, target) == Return(k, target, <<>>, None, <<>>)

\* get_unique_token on the response of its GET (lib.rs 278-299).
get_unique_token(resp) ==
    IF ~resp.transport \/ resp.body.kind = "aborted" THEN Failure("Hyper", None)
    ELSE IF resp.body.kind = "not_utf8" THEN Failure("MissingToken", None)
    ELSE LET x == rsplitn2_next(resp.body.text, "M")
             t == splitn2_nth1(x, "V")
         IN  IF t.some
             THEN Return("Token", None, <<>>, None, before_quote(t.val))
             ELSE Failure("MissingToken", None)

\* lib.rs 203-207: the archive url the Refresh header gives.
refresh_url(h) ==
    IF h.kind = "text" THEN split_nth1(h.text, "=") ELSE Nothing

\* time_stamp had every Date header that is present yielded a time stamp.
time_stamp_any(d) == IF d = "absent" THEN None ELSE "stamp"

\* lib.rs 211-215: the Date header parsed with "%a, %e %b %Y %T GMT".
time_stamp(d) == IF d = "rfc1123" THEN "stamp" ELSE None

\* The content of the first content=" of the body, og:url tag or not.
first_content(html) ==
    LET c == splitn2_nth1(html, "C")
    IN  IF c.some THEN Some(before_quote(c.val)) ELSE Nothing

\* lib.rs 237-244: the content of the og:url meta tag of the body.
og_url(html) ==
    LET m == splitn2_nth1(html, "G")
        c == IF m.some THEN splitn2_nth1(m.val, "C") ELSE Nothing
    IN  IF c.some THEN Some(before_quote(c.val)) ELSE Nothing

\* body_case had a body that is not UTF-8 failed the call like an aborted one.
body_case_utf8_error(b) ==
    IF b.kind \in {"aborted", "not_utf8"} THEN "aborted"
    ELSE IF Len(b.text) > 0 /\ b.text[1] = "S" THEN "server_error"
    ELSE IF og_url(b.text).some THEN "og_url"
    ELSE "other"

\* The case of on_post_response a response text falls under.
body_case(b) ==
    IF b.kind = "aborted" THEN "aborted"
    ELSE IF b.kind = "not_utf8" THEN "other"
    ELSE IF Len(b.text) > 0 /\ b.text[1] = "S" THEN "server_error"
    ELSE IF og_url(b.text).some THEN "og_url"
    ELSE "other"

response_case(resp) ==
    IF ~resp.transport THEN TransportFailure
    ELSE Response(refresh_url(resp.refresh).some, body_case(resp.body))

\* capture_with_token(url, tok) on the response text of its POST: the
\* outcome on_post_response gives, with the archive url and time stamp the
\* code reads from the text. "capture": the call goes on in self.capture.
capture_return(u, t, resp) ==
    LET f == on_post_response([capture_with_token(u, t) EXCEPT !.st = "post"],
                              response_case(resp))
    IN  IF f.st = "get" THEN Failure("capture", u)
        ELSE IF ~is_ok(f.res) THEN Failure(f.res.kind, f.res.url)
        ELSE IF refresh_url(resp.refresh).some
            THEN Return("Archived", f.res.url, refresh_url(resp.refresh).val,
                        time_stamp(resp.date), <<f.res.tok>>)
        ELSE Return("Archived", f.res.url, og_url(resp.body.text).val,
                    None, <<f.res.tok>>)

\* The responses SpecText draws from.
TextBody(S, n) ==
    {[kind |-> "text", text |-> s] : s \in SeqsUpTo(S, n)}
        \cup {[kind |-> "not_utf8", text |-> <<>>],
              [kind |-> "aborted", text |-> <<>>]}
Headers ==
    {[kind |-> "text", text |-> s] : s \in SeqsUpTo(HdrSymbols, MaxHdr)}
        \cup {[kind |-> "absent", text |-> <<>>],
              [kind |-> "opaque", text |-> <<>>]}
Dates == {"absent", "unparsable", "rfc1123"}

NoHeader == [kind |-> "absent", text |-> <<>>]

TextResponse(tr, h, d, b) ==
    [transport |-> tr, refresh |-> h, date |-> d, body |-> b]

\* The request failed: there is no response to read.
NoResponse ==
    TextResponse(FALSE, NoHeader, "absent", [kind |-> "aborted", text |-> <<>>])

TextCall(o, u, t, r) == [op |-> o, url |-> u, tok |-> t, resp |-> r]

NoCall == TextCall(None, None, None, NoResponse)

\* The calls of SpecText: get_unique_token on every landing page, and
\* capture_with_token on every combination of headers and body.
TokenCalls ==
    \/ call = TextCall("get_unique_token", None, None, NoResponse)
    \/ \E b \in TextBody(PageSymbols, MaxPage) :
            call = TextCall("get_unique_token", None, None,
                            TextResponse(TRUE, NoHeader, "absent", b))

CaptureCalls ==
    \E u \in URLs :
        \/ call = TextCall("capture_with_token", u, "tA", NoResponse)
        \/ \E h \in Headers, d \in Dates, b \in TextBody(BodySymbols, MaxBody) :
                call = TextCall("capture_with_token", u, "tA",
                                TextResponse(TRUE, h, d, b))

GetUniqueTokenReturn ==
    /\ call.op = "get_unique_token"
    /\ ret = NoReturn
    /\ ret' = get_unique_token(call.resp)
    /\ UNCHANGED <<call, entry, service, pc, phase, urls, token, futs,
                   archived, archives, retries, err, input, budget, rounds,
                   subs>>

CaptureWithTokenReturn ==
    /\ call.op = "capture_with_token"
    /\ ret = NoReturn
    /\ ret' = capture_return(call.url, call.tok, call.resp)
    /\ UNCHANGED <<call, entry, service, pc, phase, urls, token, futs,
                   archived, archives, retries, err, input, budget, rounds,
                   subs>>

\* ------------------------------------------------------ specifications
Fresh ==
    /\ pc = "start"
    /\ phase = "first"
    /\ futs = <<>>
    /\ archived = <<>>
    /\ err = NoResult
    /\ rounds = 0
    /\ subs = [u \in URLs |-> 0]

InitCaptureAll ==
    /\ entry = "capture_all"
    /\ urls \in SeqsUpTo(URLs, MaxUrls)
    /\ token \in {None, "tA"}
    /\ archives = <<>>
    /\ input = <<>>
    /\ retries = 0
    /\ budget = 0

InitMain ==
    /\ entry = "main"
    /\ urls \in SeqsUpTo(URLs, MaxUrls) \ {<<>>}
    /\ token = None
    /\ archives = <<>>
    /\ input = <<>>
    /\ retries \in 0..MaxRetries
    /\ budget = retries

InitFold ==
    /\ entry = "fold"
    /\ urls = <<>>
    /\ token = "tA"
    /\ archives \in SeqsUpTo(Results, MaxUrls)
    /\ input = archives
    /\ retries \in 0..MaxRetries
    /\ budget = retries

NoText == call = NoCall /\ ret = NoReturn

Init ==
    /\ service = "any"
    /\ Fresh
    /\ NoText
    /\ InitCaptureAll \/ InitMain \/ InitFold

\* A batch larger than ten urls, against a service that answers every POST
\* with a Refresh header.
InitWide ==
    /\ service = "healthy"
    /\ Fresh
    /\ NoText
    /\ entry = "capture_all"
    /\ urls \in {[i \in 1..WideUrls |-> u] : u \in URLs}
    /\ token = "tA"
    /\ archives = <<>>
    /\ input = <<>>
    /\ retries = 0
    /\ budget = 0

Next ==
    \/ Call
    \/ BatchToken
    \/ \E i \in DOMAIN futs : PostResponse(i)
    \/ \E i \in DOMAIN futs : TokenResponse(i)
    \/ CaptureAllDone
    \/ CaptureLinksDone
    \/ FoldCall
    \/ RetryRoundDone

Spec == Init /\ [][Next]_vars

SpecWide == (Init \/ InitWide) /\ [][Next]_vars

\* The runtime polls every future that can make progress, and the service
\* answers every request that was sent.
SpecFair ==
    /\ Spec
    /\ WF_vars(Call \/ BatchToken \/ FoldCall)
    /\ WF_vars(CaptureAllDone \/ CaptureLinksDone \/ RetryRoundDone)
    /\ \A i \in 1..MaxUrls :
            /\ WF_vars(i \in DOMAIN futs /\ PostResponse(i))
            /\ WF_vars(i \in DOMAIN futs /\ TokenResponse(i))

\* One call on one response text.
InitText ==
    /\ service = "any"
    /\ Fresh
    /\ entry = "text"
    /\ urls = <<>>
    /\ token = None
    /\ archives = <<>>
    /\ input = <<>>
    /\ retries = 0
    /\ budget = 0
    /\ TokenCalls \/ CaptureCalls
    /\ ret = NoReturn

NextText == GetUniqueTokenReturn \/ CaptureWithTokenReturn

SpecText == InitText /\ [][NextText]_vars

\* ------------------------------------------------------------ properties
Folding == entry \in {"main", "fold"}

count(rs, k) == Cardinality({i \in DOMAIN rs : rs[i].kind = k})
mentions(rs, u) == Cardinality({i \in DOMAIN rs : rs[i].url = u})

\* C1: when capture_all resolves, its Vec has one entry per input url, the
\* i-th entry being the outcome of the capture of the i-th url, whatever
\* number of captures failed; once the token is known the call never fails.
C1_BatchCardinality ==
    entry = "capture_all" =>
        /\ pc = "done" =>
                /\ Len(archives) = Len(urls)
                /\ \A i \in DOMAIN urls :
                        /\ archives[i].kind \in
                                {"Archived", "Hyper", "MissingToken", "MissingUrl"}
                        /\ archives[i] = futs[i].res
                        /\ futs[i].url = urls[i]
                        /\ archives[i].url \in {urls[i], None}
        /\ pc = "failed" => futs = <<>> /\ err \in {MissingToken, Hyper}

C1_Witness ==
    /\ entry = "capture_all"
    /\ pc = "done"
    /\ \E i, j \in DOMAIN archives :
            /\ is_ok(archives[i])
            /\ archives[j].kind = "MissingUrl"

\* C2: while a batch runs, a capture still in flight is changed by nothing
\* but its own response: no step that completes (or fails) another capture
\* drops it, cancels it or touches it, and a completed capture keeps its
\* outcome while its siblings run.
C2_Isolation ==
    [][pc = "join" =>
        \A j \in DOMAIN futs :
            /\ pending(futs[j]) =>
                    /\ j \in DOMAIN futs'
                    /\ futs'[j].st \in {"post", "get", "done"}
                    /\ futs'[j] # futs[j] =>
                            \A i \in DOMAIN futs \ {j} : futs'[i] = futs[i]
            /\ (futs[j].st = "done" /\ ~all_done(futs)) =>
                    /\ j \in DOMAIN futs'
                    /\ futs'[j] = futs[j]]_vars

C2_Witness ==
    /\ pc = "join"
    /\ \E i, j \in DOMAIN futs :
            /\ futs[i].st = "done"
            /\ is_err(futs[i].res)
            /\ pending(futs[j])

\* C3: a server error never makes capture_with_token call capture again:
\* no capture of a batch is ever inside a capture it started itself.
C3_NoCaptureReinvoked ==
    \A i \in DOMAIN futs : futs[i].st # "get" /\ ~futs[i].again

\* C4: a capture_with_token call that received the server error body with
\* no Refresh header resolves to ServerError(url), with the requested url.
C4_ServerErrorResult ==
    [][\A i \in DOMAIN futs :
        (pending(futs[i]) /\ futs[i].again
            /\ i \in DOMAIN futs' /\ futs'[i].st = "done")
        => futs'[i].res = ServerError(futs[i].url)]_vars

\* C5: the output of fold_captures has one entry for each entry of its
\* input: none is lost, and no url has more entries than it had.
C5_OneEntryPerInput ==
    (Folding /\ pc = "done") =>
        /\ Len(archives) = Len(input)
        /\ \A u \in URLs : mentions(archives, u) <= mentions(input, u)

\* C6: a retry round submits the urls of the ServerError and MissingUrl
\* failures and no other, and every failure of another kind (Hyper,
\* MissingToken) of the input is in the output.
C6_OthersPassThrough ==
    Folding =>
        /\ (pc = "join" /\ phase = "retry") =>
                LET resub == SelectSeq(archives,
                        LAMBDA r : r.kind \in {"ServerError", "MissingUrl"})
                IN  /\ Len(futs) = Len(resub)
                    /\ \A i \in DOMAIN futs : futs[i].url = resub[i].url
        /\ pc = "done" =>
                \A k \in {"Hyper", "MissingToken"} :
                    count(archives, k) >= count(input, k)

\* C7: with retries = 0 fold_captures starts no retry round, submits
\* nothing, and returns its input unchanged.
C7_ZeroRetries ==
    (Folding /\ budget = 0) =>
        /\ phase = "first"
        /\ rounds = 0
        /\ \A u \in URLs : subs[u] = 0
        /\ pc = "done" => archives = input

C7_Witness ==
    /\ Folding
    /\ budget = 0
    /\ pc = "done"
    /\ \E i \in DOMAIN archives : retryable(archives[i])

\* C8: when every capture of a retry round succeeds, fold_captures returns
\* at once, whatever budget is left: every submitted url has its success in
\* the output, all entries are successes and no further round is started.
C8_SecondAttemptSucceeds ==
    [][(Folding /\ pc = "join" /\ phase = "retry"
            /\ all_done(futs) /\ all_ok(collect(futs)))
        => /\ pc' = "done"
           /\ rounds' = rounds
           /\ subs' = subs
           /\ all_ok(archives')
           /\ \A i \in DOMAIN futs :
                \E k \in DOMAIN archives' :
                    /\ archives'[k] = futs[i].res
                    /\ archives'[k].url = futs[i].url]_vars

C8_Witness ==
    /\ Folding
    /\ pc = "done"
    /\ rounds = 1
    /\ retries >= 1
    /\ \E i \in DOMAIN input : retryable(input[i])
    /\ all_ok(archives)

\* C9: the budget is spent per round: round k runs with budget - k + 1
\* retries left, at most budget rounds run, a round submits each pending
\* retryable entry once, and a url that is still failing at the end was
\* submitted in every one of the budget rounds (exactly budget times when
\* it had one entry).
C9_BudgetPerRound ==
    Folding =>
        /\ rounds <= budget
        /\ (pc = "join" /\ phase = "retry") =>
                /\ retries = budget - rounds + 1
                /\ \A u \in URLs :
                        Cardinality({i \in DOMAIN futs : futs[i].url = u})
                            = Cardinality({i \in DOMAIN archives :
                                    retryable(archives[i]) /\ archives[i].url = u})
        /\ pc = "done" =>
                /\ retries = budget - rounds
                /\ \A u \in URLs :
                        (\E i \in DOMAIN archives :
                            retryable(archives[i]) /\ archives[i].url = u)
                        => /\ rounds = budget
                           /\ subs[u] >= budget
                           /\ (Cardinality({i \in DOMAIN input :
                                    retryable(input[i]) /\ input[i].url = u}) = 1
                                => subs[u] = budget)

C9_Witness ==
    /\ Folding
    /\ pc = "done"
    /\ budget >= 2
    /\ \E u, v \in URLs :
            /\ u # v
            /\ subs[u] = budget
            /\ subs[v] = 1
            /\ \E i \in DOMAIN archives : archives[i] = MissingUrl(u)

C11_OneTokenPerBatch ==
    entry = "capture_all" =>
        /\ \A i \in DOMAIN futs :
                /\ futs[i].st # "get"
                /\ futs[i].st = "post" => futs[i].tok = token
        /\ pc = "done" =>
                \A i \in DOMAIN archives :
                    is_ok(archives[i]) => archives[i].tok = token

\* C12: capture_with_token sends one POST and no GET: the response of its
\* POST resolves the call, whatever the response is.
C12_OnePostNoGet ==
    [][\A i \in DOMAIN futs :
        (pc = "join" /\ futs[i].st = "post"
            /\ i \in DOMAIN futs' /\ futs'[i] # futs[i])
        => futs'[i].st = "done"]_vars

\* C13: when the POST response carries a Refresh header "<seconds>=<url>",
\* the archive url of the result is everything after the first '=' of the
\* header value, also when the archive url itself contains '='.
C13_Refreshed ==
    /\ call.op = "capture_with_token"
    /\ call.resp.transport
    /\ call.resp.refresh.kind = "text"
    /\ find(call.resp.refresh.text, "=") > 1
    /\ ret # NoReturn

C13_ArchiveUrlAfterFirstEquals ==
    C13_Refreshed =>
        /\ ret.kind = "Archived"
        /\ ret.archived_url = splitn2_nth1(call.resp.refresh.text, "=").val

\* C14: a landing page without the submitid marker makes get_unique_token
\* fail with MissingToken, whatever else the page contains.
C14_NoMarker ==
    /\ call.op = "get_unique_token"
    /\ call.resp.transport
    /\ call.resp.body.kind = "text"
    /\ find(call.resp.body.text, "M") = 0
    /\ ret # NoReturn

C14_NoMarkerMissingToken == C14_NoMarker => ret.kind = "MissingToken"

\* C15: when the last submitid marker of the landing page is followed by
\* value="T", get_unique_token returns exactly T, the text between the first
\* value=" after that marker and the next double quote.
C15_Token(m, v, q) ==
    LET page == call.resp.body.text
    IN  /\ call.op = "get_unique_token"
        /\ call.resp.transport
        /\ call.resp.body.kind = "text"
        /\ ret # NoReturn
        /\ page[m] = "M" /\ \A j \in (m + 1)..Len(page) : page[j] # "M"
        /\ m < v /\ page[v] = "V" /\ \A j \in (m + 1)..(v - 1) : page[j] # "V"
        /\ v < q /\ page[q] = "Q"
        /\ \A j \in (v + 1)..(q - 1) : page[j] \notin Quoted

C15_TokenExtracted ==
    \A m, v, q \in 1..Len(call.resp.body.text) :
        C15_Token(m, v, q) =>
            /\ ret.kind = "Token"
            /\ ret.submit_token = SubSeq(call.resp.body.text, v + 1, q - 1)

\* the page name="submitid" value="x"
C15_Witness ==
    /\ call.resp.body.text = <<"M", "Q", "V", "x", "Q">>
    /\ C15_Token(1, 3, 5)
    /\ ret.submit_token = <<"x">>

\* C16: without Refresh header, a body that does not start with the server
\* error marker and holds <meta property="og:url" ... content="U" makes
\* capture_with_token succeed with archive url U, no time stamp, the target
\* url that was asked for and the token that was used.
C16_OgUrl(g, c, q) ==
    LET html == call.resp.body.text
    IN  /\ call.op = "capture_with_token"
        /\ call.resp.transport
        /\ call.resp.refresh.kind = "absent"
        /\ call.resp.body.kind = "text"
        /\ ret # NoReturn
        /\ html[1] # "S"
        /\ html[g] = "G" /\ \A j \in 1..(g - 1) : html[j] # "G"
        /\ g < c /\ html[c] = "C" /\ \A j \in (g + 1)..(c - 1) : html[j] # "C"
        /\ c < q /\ html[q] = "Q"
        /\ \A j \in (c + 1)..(q - 1) : html[j] \notin Quoted

C16_MetaFallback ==
    \A g, c, q \in 1..Len(call.resp.body.text) :
        C16_OgUrl(g, c, q) =>
            ret = Return("Archived", call.url,
                         SubSeq(call.resp.body.text, c + 1, q - 1),
                         None, <<call.tok>>)

\* the body <meta property="og:url" content="x" of a response with a Date
C16_Witness ==
    /\ call.resp.body.text = <<"G", "C", "x", "Q">>
    /\ C16_OgUrl(1, 2, 4)
    /\ call.resp.date = "rfc1123"
    /\ ret.kind = "Archived"
    /\ ret.archived_url = <<"x">>

\* C17: when the POST is answered without Refresh header and the body does
\* not start with the server error marker and holds no og:url meta tag (it
\* may be empty, or not UTF-8), capture_with_token(url, token) fails with
\* MissingUrl(url), url being the one that was asked for.
C17_NoSignal ==
    /\ call.op = "capture_with_token"
    /\ call.resp.transport
    /\ call.resp.refresh.kind = "absent"
    /\ ret # NoReturn
    /\ \/ call.resp.body.kind = "not_utf8"
       \/ /\ call.resp.body.kind = "text"
          /\ \A j \in DOMAIN call.resp.body.text :
                /\ call.resp.body.text[j] # "G"
                /\ j = 1 => call.resp.body.text[j] # "S"

C17_MissingUrl == C17_NoSignal => ret = Failure("MissingUrl", call.url)

C17_Witness ==
    /\ C17_NoSignal
    /\ call.url = "u2"
    /\ call.resp.body.kind = "not_utf8"
    /\ ret.kind = "MissingUrl"
    /\ ret.target_url = "u2"

C17_WitnessEmpty ==
    /\ C17_NoSignal
    /\ call.resp.body = [kind |-> "text", text |-> <<>>]
    /\ ret.kind = "MissingUrl"

\* C18: the retry operation always reaches its terminal state: once
\* fold_captures is called on a result list, it returns.
C18_FoldCalled == Folding /\ (entry = "main" => phase = "retry")

C18_RetryTerminates == C18_FoldCalled ~> (pc = "done")

\* C19: in every retry round each pending failure is submitted again
\* through capture, which fetches a fresh token for the attempt: no POST of
\* a retry round goes out before a GET of the same attempt was answered.
C19_FreshTokenPerRetry ==
    (phase = "retry" /\ pc = "join") =>
        \A i \in DOMAIN futs : futs[i].st = "post" => futs[i].again

\* C19, as the code has it: in every retry round each pending failure is
\* submitted again through capture_with_token with the token of the batch;
\* an attempt sends no GET before the POST that carries that token.
C19_RetryReusesBatchToken ==
    (phase = "retry" /\ pc = "join") =>
        \A i \in DOMAIN futs :
            ~futs[i].again =>
                /\ futs[i].st \in {"post", "done"}
                /\ futs[i].st = "post" => futs[i].tok = token

C19_Witness ==
    /\ entry = "main"
    /\ phase = "retry"
    /\ pc = "join"
    /\ token = "tB"
    /\ \E i \in DOMAIN futs :
            futs[i].st = "post" /\ ~futs[i].again /\ futs[i].tok = "tB"

\* C20: when get_unique_token fails in capture_all, no POST is dispatched
\* for any url and the call fails with the error of get_unique_token: there
\* are no per-url entries.
C20_TokenFailureIsFatal ==
    entry = "capture_all" =>
        /\ token = None => futs = <<>> /\ pc \in {"start", "token", "failed"}
        /\ pc = "failed" =>
            /\ token = None
            /\ err \in {MissingToken, Hyper}
            /\ archives = <<>>

C20_Witness ==
    /\ entry = "capture_all"
    /\ pc = "failed"
    /\ Len(urls) = MaxUrls
    /\ err = MissingToken
    /\ futs = <<>>

\* C21: on the Refresh path a Date header that is absent or does not parse
\* never fails the capture: the call succeeds with the archive url of the
\* header and without time stamp.
C21_RefreshNoDate ==
    /\ call.op = "capture_with_token"
    /\ call.resp.transport
    /\ call.resp.refresh.kind = "text"
    /\ find(call.resp.refresh.text, "=") # 0
    /\ call.resp.date \in {"absent", "unparsable"}
    /\ ret # NoReturn

C21_DateNeverFails ==
    C21_RefreshNoDate =>
        /\ ret.kind = "Archived"
        /\ ret.target_url = call.url
        /\ ret.time_stamp = None
        /\ find(call.resp.refresh.text, "=") = rfind(call.resp.refresh.text, "=")
            => ret.archived_url =
                    SubSeq(call.resp.refresh.text,
                           find(call.resp.refresh.text, "=") + 1,
                           Len(call.resp.refresh.text))

C21_Witness ==
    /\ C21_RefreshNoDate
    /\ call.resp.refresh.text = <<"a", "=", "a">>
    /\ call.resp.date = "unparsable"
    /\ ret.kind = "Archived"
    /\ ret.archived_url = <<"a">>
    /\ ret.time_stamp = None

\* C23: the Refresh header comes before the body: when the response has a
\* Refresh header with a value after '=', capture_with_token succeeds with
\* the url of the header whatever the body is, a server error body, a body
\* with an og:url meta tag and a body that cannot be read included.
C23_Refresh ==
    /\ call.op = "capture_with_token"
    /\ call.resp.transport
    /\ call.resp.refresh.kind = "text"
    /\ find(call.resp.refresh.text, "=") # 0
    /\ ret # NoReturn

C23_RefreshBeforeBody ==
    C23_Refresh =>
        /\ ret.kind = "Archived"
        /\ ret.target_url = call.url
        /\ ret.submit_token = <<call.tok>>
        /\ \A i \in DOMAIN ret.archived_url : ret.archived_url[i] \in HdrSymbols
        /\ Len(ret.archived_url) <= Len(call.resp.refresh.text)
                                        - find(call.resp.refresh.text, "=")
        /\ ret.archived_url =
                SubSeq(call.resp.refresh.text,
                       find(call.resp.refresh.text, "=") + 1,
                       find(call.resp.refresh.text, "=") + Len(ret.archived_url))

\* a server error body, and a body with an og:url of its own
C23_Witness ==
    /\ C23_Refresh
    /\ call.resp.refresh.text = <<"a", "=", "a">>
    /\ call.resp.body.text = <<"S", "G", "C", "Q">>
    /\ ret.kind = "Archived"
    /\ ret.archived_url = <<"a">>

C23_WitnessOgUrl ==
    /\ C23_Refresh
    /\ call.resp.refresh.text = <<"a", "=", "a">>
    /\ call.resp.body.text = <<"G", "C", "x", "Q">>
    /\ ret.archived_url = <<"a">>

\* C22: across the retry rounds a success is never submitted again and
\* never changes: a round submits one capture for each ServerError or
\* MissingUrl failure and none for a success, every success the list held
\* before a step is in it after the step, and every success of a round is
\* in the list the round ends with.
copies(rs, r) == Cardinality({i \in DOMAIN rs : rs[i] = r})

C22_SuccessesKept ==
    [][Folding =>
        /\ (pc' = "join" /\ phase' = "retry") =>
                /\ archived' = SelectSeq(archives', is_ok)
                /\ \A u \in URLs :
                        occurrences([i \in DOMAIN futs' |-> futs'[i].url], u)
                            = Cardinality({i \in DOMAIN archives' :
                                    /\ is_err(archives'[i])
                                    /\ archives'[i].url = u})
        /\ \A u \in URLs, t \in Tokens \cup {None} :
                /\ copies(archives', Archived(u, t))
                        >= copies(archives, Archived(u, t))
                /\ (pc = "join" /\ phase = "retry" /\ archives' # archives) =>
                        copies(archives', Archived(u, t))
                            = copies(archives, Archived(u, t))
                                + copies(collect(futs), Archived(u, t))]_vars

\* a success of the input and a success of a retry round, both in the output
C22_Witness ==
    /\ entry = "fold"
    /\ pc = "done"
    /\ rounds = 1
    /\ input = <<MissingUrl("u1"), Archived("u2", "tB")>>
    /\ archives = <<Archived("u2", "tB"), Archived("u1", "tA")>>

\* C24: the result list of capture_all and of capture_links is in input
\* order whatever the order is in which the requests complete: while the
\* batch runs a completed capture sits at the index of its url, and the
\* i-th entry of the list is the outcome of the capture of the i-th url.
C24_AtIndex(rs, i) ==
    /\ rs[i].kind \in {"Archived", "MissingUrl", "ServerError"} => rs[i].url = urls[i]
    /\ rs[i].kind \in {"Archived", "MissingUrl", "ServerError", "Hyper", "MissingToken"}

C24_InputOrder ==
    /\ (entry \in {"capture_all", "main"} /\ phase = "first" /\ pc = "join") =>
            /\ Len(futs) = Len(urls)
            /\ \A i \in DOMAIN urls :
                    /\ futs[i].url = urls[i]
                    /\ futs[i].st = "done" => C24_AtIndex(collect(futs), i)
    /\ (entry = "capture_all" /\ pc = "done") =>
            /\ Len(archives) = Len(urls)
            /\ \A i \in DOMAIN urls :
                    archives[i] = futs[i].res /\ C24_AtIndex(archives, i)
    /\ (entry = "main" /\ (phase = "retry" \/ pc = "done")) =>
            /\ Len(input) = Len(urls)
            /\ \A i \in DOMAIN urls : C24_AtIndex(input, i)

\* the second capture has completed while the first is in flight
C24_Witness ==
    /\ entry = "capture_all"
    /\ pc = "join"
    /\ urls = <<"u1", "u2">>
    /\ futs[1].st = "post"
    /\ futs[2].st = "done"
    /\ futs[2].res = MissingUrl("u2")

\* and the list the batch resolves to
C24_WitnessDone ==
    /\ entry = "capture_all"
    /\ pc = "done"
    /\ archives = <<Archived("u1", "tA"), MissingUrl("u2")>>

=============================================================================
